---- MODULE Spec2Model ----
(***************************************************************************)
(* libfringe generators (src/generator.rs): a caller context and a         *)
(* generator context that exchange control through StackPointer::swap and  *)
(* exchange values through the address of a local of the sending side.     *)
(*                                                                         *)
(* Every action is the code one context executes between two swaps.        *)
(***************************************************************************)
EXTENDS Integers, Sequences, FiniteSets, TLC

\* ---------------------------------------------------------------- bounds

\* The number of resume() calls the caller makes.
MaxResumes == 4

\* ------------------------------------------------------------ value types

\* The integer type of the documented examples (integer literals: i32).
IntMax == 2147483647
IntMin == -2147483647 - 1

\* Option<Output>: None is the empty sequence, Some(v) the one-element one.
None == <<>>
Some(v) == <<v>>
is_some(o) == o # None

\* enum State
Runnable == "Runnable"
Unavailable == "Unavailable"

\* The closures handed to Generator::new.
\*   add_one: the documented example (generator.rs:58-63)
\*   nat:     the documented iterator example (generator.rs:75-77)
\*   echo:    loop { input = yielder.suspend(input) }
\*   any:     an arbitrary F: at each point it suspends some value, returns
\*            or panics
Closures == {"add_one", "nat", "echo", "any"}

Stacks == {"stack_a", "stack_b"}

\* The unit value () of the iterator example's Input.
Unit == 0

\* The inputs the caller passes to resume, by closure.
Inputs(fn) ==
  CASE fn = "add_one" -> {0, 2, 3, IntMax}
    [] fn = "nat"     -> {Unit}
    [] fn = "echo"    -> {0, 1, 2}
    [] OTHER          -> {1, 2}

\* The values the arbitrary closure passes to suspend.
Outputs == {1, 2}

\* -------------------------------------------------------------- addresses

\* The data word of a swap is the address of a local of the sending frame.
\* &f in unsafe_new, &input in resume, &val in suspend_bare.
AddrF == 1
AddrInput == 2
AddrVal == 3

VARIABLES
  running,            \* the context on the CPU: "caller" or "generator"
  cpc,                \* where the caller is
  gpc,                \* where the generator context is
  arg_stack,          \* the stack passed to Generator::new
  f,                  \* unsafe_new's local f: [v, live]
  wrapper_f,          \* generator_wrapper's local f ("none": not read, "called")
  state,              \* Generator.state
  stack,              \* Generator.stack ("none": no generator holds one)
  stack_ptr,          \* Generator.stack_ptr
  yielder_stack_ptr,  \* Yielder.stack_ptr (the Cell)
  input,              \* resume's local input: [v, live]
  val,                \* suspend_bare's local val: [v, live]
  in_loop,            \* suspend_bare was called from generator_wrapper's loop
  body_input,         \* the closure's variable input
  range_start,        \* the RangeFrom of the nat closure
  saved,              \* the stack pointer each paused context saved (0: running)
  nsp,                \* stack pointers produced so far
  swap_ret,           \* what swap returns in the context switched to
  stale,              \* a swap was given a pointer that is not the saved one
  unwinding,          \* a panic of the closure is propagating
  ret,                \* the Option the caller holds from its last resume
  unwrapped,          \* what unwrap did: "none", "panic" or the stack returned
  inputs,             \* log: the input of each resume call
  entered,            \* log: whether each resume call switched to the generator
  outcomes,           \* log: how each resume call ended
  suspended,          \* log: the values the closure passed to suspend
  received,           \* log: the inputs the closure received
  returned_at,        \* log: the resume call during which f returned (0: not)
  panicked_at,        \* log: the resume call during which f panicked (0: not)
  drops,              \* log: destructor runs of yielded values, by side
  input_log           \* log: per resume call, whether its input was taken by
                      \* the generator side and its destructor runs by side;
                      \* and the call whose input the closure holds (0: none)

vars == <<running, cpc, gpc, arg_stack, f, wrapper_f, state, stack, stack_ptr,
          yielder_stack_ptr, input, val, in_loop, body_input, range_start,
          saved, nsp, swap_ret, stale, unwinding, ret, unwrapped, inputs,
          entered, outcomes, suspended, received, returned_at, panicked_at,
          drops, input_log>>

machine == <<running, saved, nsp, swap_ret, stale>>
genfields == <<state, stack, stack_ptr>>
logs == <<inputs, entered, outcomes, suspended, received, returned_at,
          panicked_at, drops, input_log>>

\* The caller is about to call Generator::new(arg_stack, f).
Init ==
  /\ running = "caller"
  /\ cpc = "start"
  /\ gpc = "none"
  /\ arg_stack \in Stacks
  /\ f \in [v : Closures, live : {TRUE}]
  /\ wrapper_f = "none"
  /\ state = "none"
  /\ stack = "none"
  /\ stack_ptr = 0
  /\ yielder_stack_ptr = 0
  /\ input = [v |-> 0, live |-> FALSE]
  /\ val = [v |-> None, live |-> FALSE]
  /\ in_loop = FALSE
  /\ body_input = 0
  /\ range_start = 1
  /\ saved = [caller |-> 0, generator |-> 0]
  /\ nsp = 0
  /\ swap_ret = [data |-> 0, stack_ptr |-> 0]
  /\ stale = FALSE
  /\ unwinding = FALSE
  /\ ret = None
  /\ unwrapped = "none"
  /\ inputs = <<>>
  /\ entered = <<>>
  /\ outcomes = <<>>
  /\ suspended = <<>>
  /\ received = <<>>
  /\ returned_at = 0
  /\ panicked_at = 0
  /\ drops = [caller |-> 0, generator |-> 0]
  /\ input_log = [of |-> <<>>, held |-> 0]

\* ------------------------------------------------------- core::ptr, core::mem

\* ptr::read(addr as *const T): a bitwise copy of the local at addr.
ptr_read(addr) ==
  CASE addr = AddrF     -> f.v
    [] addr = AddrInput -> input.v
    [] addr = AddrVal   -> val.v

\* Variant of forget: the call is missing, the local stays live.
forget_missing(local) == local

\* mem::forget(local): the local's destructor will not run.
forget(local) == [local EXCEPT !.live = FALSE]

\* ------------------------------------------------- StackPointer (stack_pointer.rs)

other(ctx) == IF ctx = "caller" THEN "generator" ELSE "caller"

\* StackPointer::swap(arg, sp, _) called by context from, where sv and n are
\* the saved pointers and the pointer count at the call: from is paused at a
\* new pointer, the other context continues and sees (arg, that pointer).
swap(from, arg, sp, sv, n) ==
  /\ running' = other(from)
  /\ nsp' = n + 1
  /\ saved' = [sv EXCEPT ![from] = n + 1, ![other(from)] = 0]
  /\ swap_ret' = [data |-> arg, stack_ptr |-> n + 1]
  /\ stale' = (stale \/ sp # sv[other(from)])

\* ----------------------------------------------------------- the closures

\* x + y on i32, y >= 0: on overflow a build with overflow checks panics and
\* one without wraps.
AddI32(x, y) ==
  IF x > IntMax - y
    THEN {[panic |-> TRUE, v |-> 0],
          [panic |-> FALSE, v |-> IntMin + ((y - 1) - (IntMax - x))]}
    ELSE {[panic |-> FALSE, v |-> x + y]}

\* if input == 0 { break }; input = yielder.suspend(input + 1)
add_one(inp, start) ==
  IF inp = 0
    THEN {[act |-> "return", item |-> 0, start |-> start]}
    ELSE {IF r.panic
            THEN [act |-> "panic", item |-> 0, start |-> start]
            ELSE [act |-> "suspend", item |-> r.v, start |-> start]
          : r \in AddI32(inp, 1)}

\* Variant of nat: the range yields the successor it has just computed.
nat_successor(inp, start) ==
  {IF r.panic
     THEN [act |-> "panic", item |-> 0, start |-> start]
     ELSE [act |-> "suspend", item |-> r.v, start |-> r.v]
   : r \in AddI32(start, 1)}

\* for i in 1.. { yielder.suspend(i) }: RangeFrom::next computes start + 1,
\* stores it and yields the old start.
nat(inp, start) ==
  {IF r.panic
     THEN [act |-> "panic", item |-> 0, start |-> start]
     ELSE [act |-> "suspend", item |-> start, start |-> r.v]
   : r \in AddI32(start, 1)}

\* loop { input = yielder.suspend(input) }
echo(inp, start) ==
  {[act |-> "suspend", item |-> inp, start |-> start]}

\* An arbitrary closure.
any(inp, start) ==
  {[act |-> "suspend", item |-> v, start |-> start] : v \in Outputs}
    \cup {[act |-> "return", item |-> 0, start |-> start],
          [act |-> "panic", item |-> 0, start |-> start]}

\* What the closure fn does next, given its input and its range.
BodySteps(fn, inp, start) ==
  CASE fn = "add_one" -> add_one(inp, start)
    [] fn = "nat"     -> nat(inp, start)
    [] fn = "echo"    -> echo(inp, start)
    [] OTHER          -> any(inp, start)

\* ------------------------------------------------------ ownership of inputs

\* The input of a resume call that has just been made.
InputEntry == [taken |-> FALSE, caller |-> 0, generator |-> 0]

\* ptr::read on the generator side took the input of call i.
Taken(log, i) == [log EXCEPT !.of[i].taken = TRUE]

\* The destructor of the input of call i ran on that side (i = 0: no input).
DestroyedBy(log, side, i) ==
  IF i = 0 THEN log ELSE [log EXCEPT !.of[i][side] = @ + 1]

\* A local that is live when its frame is left is destroyed.
LeaveScope(local, log, side, i) ==
  IF local.live THEN DestroyedBy(log, side, i) ELSE log

\* The closure passes the input it holds on as its next output.
MovesInput(fn) == fn = "echo"

\* ------------------------------------------------------------ construction

\* Variant of InitialState: the Generator is built Unavailable.
InitialState_unavailable == Unavailable

\* state: State::Runnable in the Generator literal of unsafe_new.
InitialState == Runnable

\* unsafe_new up to its swap: StackPointer::init prepares the stack so that
\* the first swap enters generator_wrapper(env, stack_ptr), and the swap
\* passes &f.
unsafe_new ==
  /\ running = "caller"
  /\ cpc = "start"
  /\ swap("caller", AddrF, nsp + 1,
          [saved EXCEPT !.generator = nsp + 1], nsp + 1)
  /\ cpc' = "new_swap"
  /\ gpc' = "entry"
  /\ UNCHANGED <<arg_stack, f, wrapper_f, genfields, yielder_stack_ptr, input,
                 val, in_loop, body_input, range_start, unwinding, ret,
                 unwrapped, logs>>

\* generator_wrapper up to its swap: take the closure, switch back with 0.
generator_wrapper_entry ==
  /\ running = "generator"
  /\ gpc = "entry"
  /\ wrapper_f' = ptr_read(swap_ret.data)
  /\ swap("generator", 0, swap_ret.stack_ptr, saved, nsp)
  /\ gpc' = "wrapper_swap"
  /\ UNCHANGED <<cpc, arg_stack, f, genfields, yielder_stack_ptr, input, val,
                 in_loop, body_input, range_start, unwinding, ret, unwrapped,
                 logs>>

\* unsafe_new after its swap: forget f and build the Generator.
unsafe_new_return ==
  /\ running = "caller"
  /\ cpc = "new_swap"
  /\ stack_ptr' = swap_ret.stack_ptr
  /\ f' = forget(f)
  /\ state' = InitialState
  /\ stack' = arg_stack
  /\ cpc' = "idle"
  /\ UNCHANGED <<machine, gpc, arg_stack, wrapper_f, yielder_stack_ptr, input,
                 val, in_loop, body_input, range_start, unwinding, ret,
                 unwrapped, logs>>

\* ------------------------------------------------------------------ resume

\* How a resume call that returned val is logged.
Outcome(o) ==
  IF is_some(o) THEN [kind |-> "Some", v |-> o[1]]
                ELSE [kind |-> "None", v |-> 0]

\* Variant of StateBeforeSwap: the state is left Runnable during the switch.
StateBeforeSwap_runnable == Runnable

\* self.state = State::Unavailable, before the switch.
StateBeforeSwap == Unavailable

\* Variants of StateAfterResume: the state is never set back, or always.
StateAfterResume_never(cur, v) == cur
StateAfterResume_always(cur, v) == Runnable

\* if val.is_some() { self.state = State::Runnable }
StateAfterResume(cur, v) == IF is_some(v) THEN Runnable ELSE cur

\* Variant of ResumeUnavailable: the Unavailable arm returns a value.
ResumeUnavailable_some == Some(0)

\* State::Unavailable => None
ResumeUnavailable == None

\* resume(u) up to its swap, or all of it when the state is Unavailable.
resume(u) ==
  /\ running = "caller"
  /\ cpc = "idle"
  /\ ret = None
  /\ Len(inputs) < MaxResumes
  /\ inputs' = Append(inputs, u)
  /\ IF state = Runnable
       THEN /\ state' = StateBeforeSwap
            /\ input' = [v |-> u, live |-> TRUE]
            /\ swap("caller", AddrInput, stack_ptr, saved, nsp)
            /\ cpc' = "resume_swap"
            /\ entered' = Append(entered, TRUE)
            /\ input_log' = [input_log EXCEPT !.of = Append(@, InputEntry)]
            /\ UNCHANGED <<outcomes, ret>>
       ELSE /\ ret' = ResumeUnavailable
            /\ outcomes' = Append(outcomes, Outcome(ResumeUnavailable))
            /\ entered' = Append(entered, FALSE)
            /\ input_log' =
                 DestroyedBy([input_log EXCEPT !.of = Append(@, InputEntry)],
                             "caller", Len(inputs) + 1)
            /\ UNCHANGED <<state, input, machine, cpc>>
  /\ UNCHANGED <<gpc, arg_stack, f, wrapper_f, stack, stack_ptr,
                 yielder_stack_ptr, val, in_loop, body_input, range_start,
                 unwinding, unwrapped, suspended, received, returned_at,
                 panicked_at, drops>>

\* Variant of resume_stack_ptr: the pointer returned by the swap is not stored.
resume_stack_ptr_kept(old, new) == old

\* self.stack_ptr = stack_ptr, after resume's swap.
resume_stack_ptr(old, new) == new

\* resume after its swap returned: store the generator's pointer, forget
\* input, take the Option and set the state.
resume_return ==
  /\ running = "caller"
  /\ cpc = "resume_swap"
  /\ ~unwinding
  /\ stack_ptr' = resume_stack_ptr(stack_ptr, swap_ret.stack_ptr)
  /\ input' = [forget(input) EXCEPT !.live = FALSE]
  /\ input_log' = LeaveScope(forget(input), input_log, "caller", Len(inputs))
  /\ LET v == ptr_read(swap_ret.data)
     IN /\ state' = StateAfterResume(state, v)
        /\ ret' = v
        /\ outcomes' = Append(outcomes, Outcome(v))
  /\ cpc' = "idle"
  /\ UNCHANGED <<machine, gpc, arg_stack, f, wrapper_f, stack,
                 yielder_stack_ptr, val, in_loop, body_input, range_start,
                 unwinding, unwrapped, inputs, entered, suspended, received,
                 returned_at, panicked_at, drops>>

\* The closure's panic unwinds through resume's swap and out of resume: the
\* code after the swap, mem::forget(input) included, is not executed, and the
\* unwinding leaves resume's frame with input as it is.
resume_unwind ==
  /\ running = "caller"
  /\ cpc = "resume_swap"
  /\ unwinding
  /\ unwinding' = FALSE
  /\ input' = [input EXCEPT !.live = FALSE]
  /\ input_log' = LeaveScope(input, input_log, "caller", Len(inputs))
  /\ outcomes' = Append(outcomes, [kind |-> "Panic", v |-> 0])
  /\ cpc' = "idle"
  /\ UNCHANGED <<machine, gpc, arg_stack, f, wrapper_f, genfields,
                 yielder_stack_ptr, val, in_loop, body_input, range_start,
                 ret, unwrapped, inputs, entered, suspended, received,
                 returned_at, panicked_at, drops>>

\* ------------------------------------------------- generator_wrapper, Yielder

\* generator_wrapper after its swap returned: read the first input, make the
\* Yielder from the caller's pointer and call f(&mut yielder, input).
generator_wrapper_call_f ==
  /\ running = "generator"
  /\ gpc = "wrapper_swap"
  /\ LET u == ptr_read(swap_ret.data)
     IN /\ body_input' = u
        /\ received' = Append(received, [via |-> "f_arg", v |-> u])
  /\ input_log' = [Taken(input_log, Len(inputs)) EXCEPT !.held = Len(inputs)]
  /\ yielder_stack_ptr' = swap_ret.stack_ptr
  /\ gpc' = "body"
  /\ UNCHANGED <<machine, cpc, arg_stack, f, wrapper_f, genfields, input, val,
                 in_loop, range_start, unwinding, ret, unwrapped, inputs,
                 entered, outcomes, suspended, returned_at, panicked_at,
                 drops>>

\* Variant of suspend_arg: suspend passes None.
suspend_arg_none(item) == None

\* Yielder::suspend(item): self.suspend_bare(Some(item)).
suspend_arg(item) == Some(item)

\* Variant of LoopVal: the final loop yields a value.
LoopVal_some == Some(0)

\* loop { yielder.suspend_bare(None); }
LoopVal == None

\* Yielder::suspend_bare(v) up to its swap: v is the local val, &val goes to
\* the caller.
suspend_bare(v, from_loop) ==
  /\ val' = [v |-> v, live |-> TRUE]
  /\ swap("generator", AddrVal, yielder_stack_ptr, saved, nsp)
  /\ gpc' = "suspend_swap"
  /\ in_loop' = from_loop

\* The closure runs to its next yielder.suspend(item).
f_suspend ==
  /\ running = "generator"
  /\ gpc = "body"
  /\ \E step \in BodySteps(wrapper_f, body_input, range_start) :
       /\ step.act = "suspend"
       /\ range_start' = step.start
       /\ suspended' = Append(suspended, step.item)
       /\ suspend_bare(suspend_arg(step.item), FALSE)
  /\ input_log' = IF MovesInput(wrapper_f)
                    THEN [input_log EXCEPT !.held = 0]
                    ELSE input_log
  /\ UNCHANGED <<cpc, arg_stack, f, wrapper_f, genfields, yielder_stack_ptr,
                 input, body_input, unwinding, ret, unwrapped, inputs,
                 entered, outcomes, received, returned_at, panicked_at,
                 drops>>

\* The closure returns to generator_wrapper.
f_return ==
  /\ running = "generator"
  /\ gpc = "body"
  /\ \E step \in BodySteps(wrapper_f, body_input, range_start) :
       step.act = "return"
  /\ gpc' = "loop"
  /\ returned_at' = Len(inputs)
  /\ input_log' = [DestroyedBy(input_log, "generator", input_log.held)
                     EXCEPT !.held = 0]
  /\ UNCHANGED <<machine, cpc, arg_stack, f, wrapper_f, genfields,
                 yielder_stack_ptr, input, val, in_loop, body_input,
                 range_start, unwinding, ret, unwrapped, inputs, entered,
                 outcomes, suspended, received, panicked_at, drops>>

\* One iteration of generator_wrapper's final loop, up to the swap.
generator_wrapper_loop ==
  /\ running = "generator"
  /\ gpc = "loop"
  /\ suspend_bare(LoopVal, TRUE)
  /\ UNCHANGED <<cpc, arg_stack, f, wrapper_f, genfields, yielder_stack_ptr,
                 input, body_input, range_start, unwinding, ret, unwrapped,
                 logs>>

\* The closure panics: the unwinding leaves the generator's frames, where it
\* destroys what the closure holds, and goes on in the caller, at the swap of
\* the resume in progress.
f_panic ==
  /\ running = "generator"
  /\ gpc = "body"
  /\ \E step \in BodySteps(wrapper_f, body_input, range_start) :
       step.act = "panic"
  /\ gpc' = "dead"
  /\ unwinding' = TRUE
  /\ running' = "caller"
  /\ saved' = [saved EXCEPT !.caller = 0]
  /\ panicked_at' = Len(inputs)
  /\ input_log' = [DestroyedBy(input_log, "generator", input_log.held)
                     EXCEPT !.held = 0]
  /\ UNCHANGED <<nsp, swap_ret, stale, cpc, arg_stack, f, wrapper_f,
                 genfields, yielder_stack_ptr, input, val, in_loop,
                 body_input, range_start, ret, unwrapped, inputs, entered,
                 outcomes, suspended, received, returned_at, drops>>

\* Variant of suspend_bare_result: the data word is ignored and the closure
\* keeps the input it had.
suspend_bare_result_stale(data) == body_input

\* ptr::read(data as *const Input), the value suspend_bare returns.
suspend_bare_result(data) == ptr_read(data)

\* self.stack_ptr.set(stack_ptr), after suspend_bare's swap.
yielder_stack_ptr_set(old, new) == new

\* Yielder::suspend_bare after its swap returned: store the caller's pointer,
\* forget val, return the input. val then goes out of scope: its destructor
\* runs if it is still live, and the local is gone.
suspend_bare_return ==
  /\ running = "generator"
  /\ gpc = "suspend_swap"
  /\ yielder_stack_ptr' = yielder_stack_ptr_set(yielder_stack_ptr,
                                                swap_ret.stack_ptr)
  /\ LET v == forget(val)
     IN /\ drops' = IF v.live /\ is_some(v.v)
                      THEN [drops EXCEPT !.generator = @ + 1]
                      ELSE drops
        /\ val' = [v |-> None, live |-> FALSE]
  /\ LET u == suspend_bare_result(swap_ret.data)
     IN IF in_loop
          THEN /\ gpc' = "loop"
               /\ input_log' = DestroyedBy(Taken(input_log, Len(inputs)),
                                           "generator", Len(inputs))
               /\ UNCHANGED <<body_input, received>>
          ELSE /\ gpc' = "body"
               /\ body_input' = u
               /\ received' = Append(received, [via |-> "suspend_ret", v |-> u])
               /\ input_log' =
                    [DestroyedBy(Taken(input_log, Len(inputs)), "generator",
                                 input_log.held)
                       EXCEPT !.held = Len(inputs)]
  /\ UNCHANGED <<machine, cpc, arg_stack, f, wrapper_f, genfields, input,
                 in_loop, range_start, unwinding, ret, unwrapped, inputs,
                 entered, outcomes, suspended, returned_at, panicked_at>>

\* ---------------------------------------------------- state, unwrap, drop

\* Generator::state
state_of == state

\* Variant of unwrap_result: the arms of the match are exchanged.
unwrap_result_exchanged(st, stk) == IF st = Unavailable THEN "panic" ELSE stk

\* Generator::unwrap: the match on self.state.
unwrap_result(st, stk) == IF st = Runnable THEN "panic" ELSE stk

\* unwrap(self): the generator is consumed either way.
unwrap ==
  /\ running = "caller"
  /\ cpc = "idle"
  /\ unwrapped' = unwrap_result(state_of, stack)
  /\ stack' = "none"
  /\ cpc' = "done"
  /\ UNCHANGED <<machine, gpc, arg_stack, f, wrapper_f, state, stack_ptr,
                 yielder_stack_ptr, input, val, in_loop, body_input,
                 range_start, unwinding, ret, logs>>

\* Variant of drop_generator: dropping the Generator destroys what the closure
\* holds on the generator's stack.
drop_generator_unwinding ==
  /\ running = "caller"
  /\ cpc = "idle"
  /\ stack' = "none"
  /\ cpc' = "done"
  /\ input_log' = [DestroyedBy(input_log, "generator", input_log.held)
                     EXCEPT !.held = 0]
  /\ UNCHANGED <<machine, gpc, arg_stack, f, wrapper_f, state, stack_ptr,
                 yielder_stack_ptr, input, val, in_loop, body_input,
                 range_start, unwinding, ret, unwrapped, inputs, entered,
                 outcomes, suspended, received, returned_at, panicked_at,
                 drops>>

\* The caller drops the Generator: it has no Drop impl, its fields are
\* dropped and nothing on the generator's stack runs.
drop_generator ==
  /\ running = "caller"
  /\ cpc = "idle"
  /\ stack' = "none"
  /\ cpc' = "done"
  /\ UNCHANGED <<machine, gpc, arg_stack, f, wrapper_f, state, stack_ptr,
                 yielder_stack_ptr, input, val, in_loop, body_input,
                 range_start, unwinding, ret, unwrapped, logs>>

\* The caller drops the value its last resume returned.
drop_result ==
  /\ running = "caller"
  /\ cpc \in {"idle", "done"}
  /\ is_some(ret)
  /\ ret' = None
  /\ drops' = [drops EXCEPT !.caller = @ + 1]
  /\ UNCHANGED <<machine, cpc, gpc, arg_stack, f, wrapper_f, genfields,
                 yielder_stack_ptr, input, val, in_loop, body_input,
                 range_start, unwinding, unwrapped, inputs, entered, outcomes,
                 suspended, received, returned_at, panicked_at, input_log>>

\* Iterator::next for Generator<(), Output, Stack>: self.resume(()).
next ==
  /\ Inputs(f.v) = {Unit}
  /\ resume(Unit)

\* ------------------------------------------------------------ specification

Next ==
  \/ unsafe_new
  \/ generator_wrapper_entry
  \/ unsafe_new_return
  \/ \E u \in Inputs(f.v) : resume(u)
  \/ next
  \/ resume_return
  \/ resume_unwind
  \/ generator_wrapper_call_f
  \/ f_suspend
  \/ f_return
  \/ generator_wrapper_loop
  \/ f_panic
  \/ suspend_bare_return
  \/ unwrap
  \/ drop_generator
  \/ drop_result

Spec == Init /\ [][Next]_vars

\* -------------------------------------------------------------- properties

\* The resume calls that switched to the generator, and the k-th of them.
EnteredCalls == {i \in 1..Len(entered) : entered[i]}
KthEntered(k) ==
  CHOOSE i \in EnteredCalls : Cardinality({j \in EnteredCalls : j <= i}) = k

\* The resume calls that returned Some.
SomeCalls == {i \in 1..Len(outcomes) : outcomes[i].kind = "Some"}
NoneCalls == {i \in 1..Len(outcomes) : outcomes[i].kind = "None"}

LastOutcome == outcomes[Len(outcomes)]

\* C1: once the closure has returned, the resume call in progress returns
\* None and so does every later resume call, whatever its input.
C1_NoneAfterReturn ==
  returned_at > 0 =>
    \A i \in returned_at..Len(outcomes) : outcomes[i].kind = "None"

\* C1 witness: the closure returned after a yield and two more calls, with
\* different inputs, came back.
C1_Witness ==
  /\ returned_at > 1
  /\ Len(outcomes) >= returned_at + 2
  /\ inputs[returned_at + 1] # inputs[returned_at + 2]

\* C2: the k-th value passed to suspend is what the k-th resume call that
\* entered the generator returns, as Some of that value; no value is lost,
\* duplicated or reordered.
C2_SuspendDelivered ==
  /\ Len(suspended) <= Cardinality(EnteredCalls)
  /\ \A k \in 1..Len(suspended) :
       KthEntered(k) <= Len(outcomes) =>
         outcomes[KthEntered(k)] = [kind |-> "Some", v |-> suspended[k]]
  /\ Cardinality(SomeCalls) <= Len(suspended)
  /\ cpc \in {"idle", "done"} => Cardinality(SomeCalls) = Len(suspended)

\* C2 witness: three different values in a row were delivered.
C2_Witness ==
  /\ f.v = "any"
  /\ Len(suspended) >= 3
  /\ Cardinality(SomeCalls) = Len(suspended)
  /\ suspended[1] # suspended[2]
  /\ suspended[2] = suspended[3]

\* C3: the k-th input the closure receives is the input of the k-th resume
\* call that entered the generator; the first arrives as the argument of f,
\* every later one as the return value of suspend.
C3_InputDelivered ==
  /\ Len(received) <= Cardinality(EnteredCalls)
  /\ \A k \in 1..Len(received) :
       /\ received[k].v = inputs[KthEntered(k)]
       /\ (received[k].via = "f_arg") <=> (k = 1)
  /\ gpc \in {"body", "loop", "dead"} =>
       Len(received) = Cardinality(EnteredCalls)

\* C3 witness: the closure got different inputs through f and through
\* suspend.
C3_Witness ==
  /\ Len(received) >= 3
  /\ received[1].v # received[2].v
  /\ received[2].v # received[3].v

\* C4: the closure that yields back each input is the identity on the
\* caller's sequence: the i-th resume(u) returns Some(u).
C4_EchoIdentity ==
  f.v = "echo" =>
    \A i \in 1..Len(outcomes) :
      outcomes[i] = [kind |-> "Some", v |-> inputs[i]]

\* C4 witness: three calls with inputs that differ came back.
C4_Witness ==
  /\ f.v = "echo"
  /\ Len(outcomes) >= 3
  /\ inputs[1] # inputs[2]
  /\ inputs[2] # inputs[3]

\* C5: after a resume call returned None, state() is Unavailable and
\* unwrap() does not panic and returns the stack given to the constructor.
C5_UnavailableAfterNone ==
  NoneCalls # {} =>
    /\ cpc = "idle" =>
         /\ state_of = Unavailable
         /\ unwrap_result(state_of, stack) = arg_stack
    /\ cpc = "resume_swap" => FALSE
    /\ unwrapped # "none" => unwrapped = arg_stack

\* C5 witness: unwrap was called after a None and gave the stack back.
C5_Witness ==
  /\ NoneCalls # {}
  /\ unwrapped = arg_stack

\* C6: before the first resume and after every resume that returned Some,
\* state() is Runnable and unwrap() panics.
C6_RunnableBetweenYields ==
  (cpc \in {"idle", "done"} /\ (outcomes = <<>> \/ LastOutcome.kind = "Some")) =>
    /\ cpc = "idle" =>
         /\ state_of = Runnable
         /\ unwrap_result(state_of, stack) = "panic"
    /\ unwrapped # "none" => unwrapped = "panic"

\* C6 witness: unwrap was called between two yields and panicked.
C6_Witness ==
  /\ Len(outcomes) >= 2
  /\ LastOutcome.kind = "Some"
  /\ unwrapped = "panic"

\* C7: a panic of the closure comes out of the resume call in progress;
\* afterwards state() is Unavailable and unwrap() returns the stack.
C7_PanicPropagates ==
  panicked_at > 0 =>
    /\ Len(outcomes) >= panicked_at => outcomes[panicked_at].kind = "Panic"
    /\ Len(outcomes) < panicked_at =>
         unwinding /\ running = "caller" /\ cpc = "resume_swap"
    /\ cpc = "idle" =>
         /\ state_of = Unavailable
         /\ unwrap_result(state_of, stack) = arg_stack
    /\ unwrapped # "none" => unwrapped = arg_stack

\* C7 witness: the closure panicked after a yield, the panic came out of
\* resume and unwrap gave the stack back.
C7_Witness ==
  /\ panicked_at > 1
  /\ Len(outcomes) >= panicked_at
  /\ unwrapped = arg_stack

\* C8: after k resumes that returned Some and one that returned None, once
\* the caller has dropped what it was given, the destructor of a yielded
\* value has run exactly k times, never on the generator's side, and the
\* generator holds no yielded value.
C8_MoveSemantics ==
  (NoneCalls # {} /\ ret = None /\ cpc \in {"idle", "done"}) =>
    /\ drops.caller = Cardinality(SomeCalls)
    /\ drops.generator = 0
    /\ ~is_some(val.v)

\* C8 witness: two values were yielded and dropped by the caller before the
\* None.
C8_Witness ==
  /\ NoneCalls # {}
  /\ Cardinality(SomeCalls) = 2
  /\ drops.caller = 2
  /\ ret = None

\* The first resume call whose input is 0 (past the end when there is none).
FirstZero ==
  IF \E i \in 1..Len(inputs) : inputs[i] = 0
    THEN CHOOSE i \in 1..Len(inputs) :
           inputs[i] = 0 /\ \A j \in 1..(i - 1) : inputs[j] # 0
    ELSE Len(inputs) + 1

\* The documented result of the i-th resume call of the add_one generator.
AddOneAsClaimed(i) ==
  IF i < FirstZero
    THEN /\ outcomes[i].kind = "Some"
         /\ inputs[i] < IntMax
         /\ outcomes[i].v = inputs[i] + 1
    ELSE outcomes[i].kind = "None"

\* C9 as stated: for every sequence of non-zero inputs followed by 0, each
\* resume(x) returns Some(x + 1), resume(0) returns None and so does every
\* later resume.
C9_AddOneAnyInput ==
  f.v = "add_one" => \A i \in 1..Len(outcomes) : AddOneAsClaimed(i)

\* C9 amended: the same, for non-zero inputs smaller than i32::MAX, for
\* which input + 1 does not overflow.
C9_AddOne ==
  f.v = "add_one" =>
    \A i \in 1..Len(outcomes) :
      (\A j \in 1..i : j < FirstZero => inputs[j] < IntMax) => AddOneAsClaimed(i)

\* C9 witness: resume(2), resume(3), resume(0), resume(0) returned Some(3),
\* Some(4), None, None.
C9_Witness ==
  /\ f.v = "add_one"
  /\ inputs = <<2, 3, 0, 0>>
  /\ outcomes = <<[kind |-> "Some", v |-> 3], [kind |-> "Some", v |-> 4],
                  [kind |-> "None", v |-> 0], [kind |-> "None", v |-> 0]>>

C11_DocExamplePrints ==
  f.v = "nat" =>
    \A n \in 1..Len(outcomes) :
      n <= 3 => outcomes[n] = [kind |-> "Some", v |-> n - 1]

\* C12: a resume call made while the state is Unavailable returns None
\* without a context switch: the caller keeps running, the generator context
\* takes no step, and state, stack and stack_ptr are unchanged.
C12_UnavailableResumeNoSwitch ==
  [][(cpc = "idle" /\ state = Unavailable /\ Len(inputs') = Len(inputs) + 1) =>
       /\ outcomes' = Append(outcomes, [kind |-> "None", v |-> 0])
       /\ ret' = None
       /\ cpc' = "idle"
       /\ UNCHANGED <<running, saved, nsp, swap_ret, gpc, state, stack,
                      stack_ptr, yielder_stack_ptr, val, body_input,
                      range_start, suspended, received>>]_vars

\* C12 witness: resume was called after the closure returned and again after
\* that, and neither call entered the generator.
C12_Witness ==
  /\ returned_at > 0
  /\ Len(outcomes) >= returned_at + 1
  /\ ~entered[returned_at + 1]
  /\ cpc = "idle"

\* C13: resume sets the state to Unavailable before it switches, so the state
\* is Unavailable whenever the generator runs on behalf of a resume; when
\* resume has returned the state is Runnable exactly if it returned Some, and
\* once the closure has returned or panicked the state stays Unavailable.
C13_StateDuringResume ==
  /\ cpc = "resume_swap" => state = Unavailable
  /\ (running = "generator" /\ gpc \in {"body", "loop", "suspend_swap",
                                        "wrapper_swap"}) =>
       state = Unavailable
  /\ (cpc = "idle" /\ outcomes # <<>>) =>
       (state = Runnable <=> LastOutcome.kind = "Some")
  /\ (returned_at > 0 \/ panicked_at > 0) => state = Unavailable

\* C13 witness: the closure is running in its second resume, after a yield
\* that had set the state back to Runnable.
C13_Witness ==
  /\ running = "generator"
  /\ gpc = "body"
  /\ Len(outcomes) = 1
  /\ LastOutcome.kind = "Some"
  /\ Len(inputs) = 2

\* Where a context waits inside StackPointer::swap.
CallerSwapSites == {"new_swap", "resume_swap"}
GeneratorSwapSites == {"wrapper_swap", "suspend_swap"}

\* The generator context exists: its stack has been entered and the closure
\* has not left it by a panic.
GeneratorExists == gpc \notin {"none", "dead"}

C15_FreshStackPointers ==
  /\ ~stale
  /\ (running = "caller" /\ cpc = "idle" /\ gpc \in GeneratorSwapSites) =>
       stack_ptr = saved.generator
  /\ (running = "generator" /\ gpc \in {"body", "loop"}) =>
       yielder_stack_ptr = saved.caller

\* C15 witness: the closure runs in its third resume and the Yielder holds
\* the pointer of that resume, not of an earlier one.
C15_Witness ==
  /\ running = "generator"
  /\ gpc = "body"
  /\ Len(outcomes) = 2
  /\ yielder_stack_ptr = saved.caller
  /\ yielder_stack_ptr > 6

\* C16: construction is two swaps: unsafe_new switches onto the new stack,
\* generator_wrapper takes the closure and switches straight back with the
\* data word 0. When unsafe_new has returned the state is Runnable, the
\* closure belongs to the generator side alone and f has not been called; f
\* is called only by the first resume.
C16_ConstructionHandshake ==
  /\ (running = "caller" /\ cpc = "new_swap") =>
       /\ swap_ret.data = 0
       /\ gpc = "wrapper_swap"
       /\ wrapper_f = f.v
  /\ (cpc = "idle" /\ inputs = <<>>) =>
       /\ nsp = 3
       /\ state_of = Runnable
       /\ stack = arg_stack
       /\ stack_ptr = saved.generator
       /\ gpc = "wrapper_swap"
       /\ wrapper_f = f.v
       /\ ~f.live
       /\ received = <<>>
  /\ (received # <<>> \/ gpc \in {"body", "loop", "suspend_swap", "dead"}) =>
       /\ inputs # <<>>
       /\ entered[1]
       /\ received[1] = [via |-> "f_arg", v |-> inputs[1]]

\* C16 witness: unsafe_new has returned and resume has not been called.
C16_Witness ==
  /\ cpc = "idle"
  /\ inputs = <<>>
  /\ wrapper_f = "any"
  /\ nsp = 3

\* C17: once the closure has returned and suspend_bare(None) has switched
\* back to the caller, no resume, unwrap or drop switches onto the generator
\* again: the swap in generator_wrapper's final loop never returns.
C17_NoReentryAfterReturn ==
  [][(in_loop /\ gpc = "suspend_swap" /\ running = "caller") =>
       /\ running' = "caller"
       /\ gpc' = "suspend_swap"
       /\ in_loop'
       /\ UNCHANGED <<nsp, saved, yielder_stack_ptr, val>>]_vars

\* C17 witness: after the closure returned, resume was called again and the
\* generator was unwrapped, with the generator still waiting in the loop.
C17_Witness ==
  /\ in_loop
  /\ gpc = "suspend_swap"
  /\ returned_at > 0
  /\ Len(outcomes) >= returned_at + 1
  /\ unwrapped = arg_stack

\* C18: every value sent across a switch has one owner afterwards: the
\* closure is the generator's once unsafe_new has returned, no input and no
\* yielded value is destroyed twice, and none is destroyed by its sender
\* after the receiver has taken it, on every path, the closure's panic
\* included.
C18_SingleOwner ==
  /\ cpc \notin {"start", "new_swap"} => (~f.live /\ wrapper_f = f.v)
  /\ \A i \in 1..Len(input_log.of) :
       /\ input_log.of[i].caller + input_log.of[i].generator <= 1
       /\ input_log.of[i].taken => input_log.of[i].caller = 0
  /\ drops.generator = 0
  /\ drops.caller <= Cardinality(SomeCalls)

\* C19: dropping a Runnable generator makes no context switch: the caller
\* keeps running, the generator context takes no step then or later, and the
\* destructors of what lives on the generator's stack (the closure, the
\* input it holds, the local val) do not run.
C19_DropRunnableLeaks ==
  /\ [](cpc = "done" => running = "caller")
  /\ [][(cpc = "idle" /\ state = Runnable /\ cpc' = "done"
           /\ unwrapped' = "none") =>
          /\ running' = "caller"
          /\ UNCHANGED <<gpc, nsp, saved, swap_ret, wrapper_f, val,
                         body_input, yielder_stack_ptr, input_log, drops,
                         suspended, received>>]_vars
  /\ [][cpc = "done" =>
          UNCHANGED <<gpc, nsp, saved, wrapper_f, val, body_input,
                      input_log, suspended, received>>]_vars

\* C19 witness: the generator was dropped while the closure waited in
\* suspend, holding an input and with val live.
C19_Witness ==
  /\ cpc = "done"
  /\ unwrapped = "none"
  /\ state = Runnable
  /\ gpc = "suspend_swap"
  /\ ~in_loop
  /\ input_log.held # 0
  /\ val.live

\* The code the generator context executes between two swaps.
GeneratorStep ==
  \/ generator_wrapper_entry
  \/ generator_wrapper_call_f
  \/ f_suspend
  \/ f_return
  \/ f_panic
  \/ generator_wrapper_loop
  \/ suspend_bare_return

\* The context on the CPU goes on executing: the generator reaches its next
\* swap (each segment of the closure is finite), and resume goes on after its
\* swap has returned or been unwound through.
LiveSpec ==
  /\ Spec
  /\ WF_vars(GeneratorStep)
  /\ WF_vars(resume_return)
  /\ WF_vars(resume_unwind)

\* C20: every resume call comes back to the caller: the n-th call, once
\* made, ends (with Some, None or the closure's panic).
C20_ResumeReturns ==
  \A n \in 1..MaxResumes :
    (Len(inputs) = n) ~> (Len(outcomes) = n /\ cpc \in {"idle", "done"})

\* C20 witness: a resume call that entered the generator after a yield has
\* come back.
C20_Witness ==
  /\ Len(outcomes) = 2
  /\ entered[2]
  /\ cpc = "idle"

====
